---- MODULE Spec2Model ----
(***************************************************************************)
(* Model of src/src/naive_bayes.py: the multinomial Naive Bayes classifier *)
(* (class NaiveBayes) together with the tensors its caller holds.          *)
(*                                                                         *)
(* Numbers.  The code computes in floating point; the model computes in    *)
(* exact rational arithmetic.  A float is a reduced fraction <<n, d>> with *)
(* d > 0, and NaN is <<0, 0>>.  A log-probability x is carried as exp(x):  *)
(* log is strictly increasing, so sums of logs are products, -inf is the   *)
(* fraction 0 and the order of log-posteriors is the order of the          *)
(* fractions.  Rounding of float32 is not modelled.                        *)
(*                                                                         *)
(* Optional values (a field that is None until fit) are sequences: <<>> is *)
(* None and <<v>> is the value v.  A dict is a function on its key set.    *)
(***************************************************************************)
EXTENDS Integers, Sequences, FiniteSets, TLC

\* ---- bounds of the model ------------------------------------------------
MaxRows == 2
MaxVocab == 2
MaxCount == 1
MaxLabel == 2
MaxDelta == 2
MaxFits == 2

\* ---- exact arithmetic standing for the float arithmetic ------------------
RECURSIVE Gcd(_, _)
Gcd(a, b) == IF b = 0 THEN a ELSE Gcd(b, a % b)

NaN == <<0, 0>>

IsNaN(x) == x[2] = 0

\* n / d as torch and Python floats give it for n, d >= 0 (0/0 is nan; the
\* code never divides a positive number by zero).
Frac(n, d) ==
    IF d = 0 THEN NaN
    ELSE LET g == Gcd(n, d) IN <<n \div g, d \div g>>

One == <<1, 1>>

Zero == <<0, 1>>

Mul(x, y) == IF IsNaN(x) \/ IsNaN(y) THEN NaN ELSE Frac(x[1] * y[1], x[2] * y[2])

Add(x, y) == IF IsNaN(x) \/ IsNaN(y) THEN NaN ELSE Frac(x[1] * y[2] + y[1] * x[2], x[2] * y[2])

\* x < y for two numbers that are not NaN
Less(x, y) == x[1] * y[2] < y[1] * x[2]

RECURSIVE SumSeq(_)
SumSeq(s) == IF s = <<>> THEN 0 ELSE Head(s) + SumSeq(Tail(s))

RECURSIVE SumFrac(_)
SumFrac(s) == IF s = <<>> THEN Zero ELSE Add(Head(s), SumFrac(Tail(s)))

\* ---- inputs --------------------------------------------------------------
Vectors(len, vals) == [1..len -> vals]

\* a feature matrix: its rows and its number of columns (shape (Len(rows), cols))
FeatureMatrices ==
    UNION {[rows : Vectors(n, Vectors(v, 0..MaxCount)), cols : {v}] :
             n \in 0..MaxRows, v \in 1..MaxVocab}

LabelVectors == UNION {Vectors(n, 0..MaxLabel) : n \in 0..MaxRows}

Deltas == 0..MaxDelta

InferenceFeatures == UNION {Vectors(n, 0..MaxCount) : n \in 1..(MaxVocab + 1)}

None == <<>>

Some(v) == <<v>>

VARIABLES
    class_priors,               \* self.class_priors: None or dict class id -> float
    conditional_probabilities,  \* self.conditional_probabilities: None or dict class id -> vector
    vocab_size,                 \* self.vocab_size: None or int
    features,                   \* the caller's feature tensor (fit receives a reference to it)
    labels,                     \* the caller's label tensor
    call,                       \* the last call made on the classifier and its arguments
    outcome,                    \* how that call ended: returned value or raised error
    argFeatures,                \* the feature tensor's contents when the last fit was entered
    fitDelta,                   \* the delta of the fit that stored conditional_probabilities
    nfits                       \* number of fit calls so far

vars == <<class_priors, conditional_probabilities, vocab_size, features, labels,
          call, outcome, argFeatures, fitDelta, nfits>>

fitted == <<class_priors, conditional_probabilities, vocab_size>>

NoFeature == <<>>

Returned(v) == [kind |-> "ok", val |-> <<v>>]

Raised(e) == [kind |-> e, val |-> <<>>]

\* ---- fit -----------------------------------------------------------------
\* torch.bincount(labels): counts of 0..max(labels), the empty tensor for no labels
BinCount(ls) ==
    LET K == IF ls = <<>> THEN 0
             ELSE 1 + CHOOSE m \in 0..MaxLabel + 1 :
                        /\ \E i \in 1..Len(ls) : ls[i] = m
                        /\ \A i \in 1..Len(ls) : ls[i] <= m
    IN [c \in 0..(K - 1) |-> Cardinality({i \in 1..Len(ls) : ls[i] = c})]

\* a slip fit could make: dividing by the number of classes
FitClassPriorsPerClass(ls) ==
    LET class_counts == BinCount(ls)
    IN [i \in DOMAIN class_counts |->
            Frac(class_counts[i], Cardinality(DOMAIN class_counts))]

FitClassPriors(ls) ==
    LET class_counts == BinCount(ls)
        num_examples == Len(ls)
    IN [i \in DOMAIN class_counts |-> Frac(class_counts[i], num_examples)]

\* estimate_class_priors (a method fit does not use)
estimate_class_priors(ls) ==
    LET unique == {ls[i] : i \in 1..Len(ls)}
    IN [c \in unique |-> Frac(Cardinality({i \in 1..Len(ls) : ls[i] = c}), Len(ls))]

VecAdd(a, b) == [j \in 1..Len(a) |-> a[j] + b[j]]

\* The loop of estimate_conditional_probabilities from row i on.  rows is the
\* storage of the caller's tensor; cwc is class_word_counts, whose values are
\* views of rows (cwc[c] is the index of the row the view aliases), so "+=" on
\* a value writes into the caller's tensor.  Reading labels[i] past the end of
\* the label tensor raises IndexError, with the rows written so far.
RECURSIVE AccumulateWordCounts(_, _, _, _)
AccumulateWordCounts(i, rows, ls, cwc) ==
    IF i > Len(rows) THEN [err |-> FALSE, rows |-> rows, cwc |-> cwc]
    ELSE IF i > Len(ls) THEN [err |-> TRUE, rows |-> rows, cwc |-> cwc]
    ELSE LET label == ls[i]
         IN IF label \in DOMAIN cwc
            THEN AccumulateWordCounts(i + 1,
                     [rows EXCEPT ![cwc[label]] = VecAdd(rows[cwc[label]], rows[i])],
                     ls, cwc)
            ELSE AccumulateWordCounts(i + 1, rows, ls,
                     [c \in DOMAIN cwc \cup {label} |-> IF c = label THEN i ELSE cwc[c]])

\* slips the smoothing could make: delta counted once in the denominator, and
\* delta left out of the numerator
SmoothedProbsDeltaOnce(word_counts, delta, vsize) ==
    LET total_words == SumSeq(word_counts)
    IN [j \in 1..Len(word_counts) |->
            Frac(word_counts[j] + delta, total_words + delta)]

SmoothedProbsRawCount(word_counts, delta, vsize) ==
    LET total_words == SumSeq(word_counts)
    IN [j \in 1..Len(word_counts) |->
            Frac(word_counts[j], total_words + delta * vsize)]

SmoothedProbs(word_counts, delta, vsize) ==
    LET total_words == SumSeq(word_counts)
    IN [j \in 1..Len(word_counts) |->
            Frac(word_counts[j] + delta, total_words + delta * vsize)]

EmptyDict == [c \in {} |-> 0]

\* estimate_conditional_probabilities(features, labels, delta) with
\* self.vocab_size = vsize: the returned dict (or the IndexError) and the
\* caller's tensor as the call leaves it.
estimate_conditional_probabilities(rows, ls, delta, vsize) ==
    LET acc == AccumulateWordCounts(1, rows, ls, EmptyDict)
    IN [err |-> acc.err,
        rows |-> acc.rows,
        probs |-> [c \in DOMAIN acc.cwc |-> SmoothedProbs(acc.rows[acc.cwc[c]], delta, vsize)]]

Fit(delta) ==
    /\ nfits < MaxFits
    /\ LET priors == FitClassPriors(labels)
           est == estimate_conditional_probabilities(features.rows, labels, delta, features.cols)
       IN /\ class_priors' = Some(priors)
          /\ vocab_size' = Some(features.cols)
          /\ conditional_probabilities' =
                 IF est.err THEN conditional_probabilities ELSE Some(est.probs)
          /\ features' = [features EXCEPT !.rows = est.rows]
          /\ fitDelta' = IF est.err THEN fitDelta ELSE Some(delta)
          /\ outcome' = IF est.err THEN Raised("IndexError") ELSE Returned(None)
    /\ argFeatures' = features
    /\ call' = [op |-> "fit", feature |-> NoFeature, delta |-> delta]
    /\ nfits' = nfits + 1
    /\ UNCHANGED labels

\* ---- inference -----------------------------------------------------------
\* "x is None"
IsNone(x) == x = None

\* "not x" for a field that is None or a dict: None and the empty dict are falsy
Falsy(x) == x = None \/ DOMAIN x[1] = {}

RECURSIVE Pow(_, _)
Pow(q, f) == IF f = 0 THEN One ELSE Mul(q, Pow(q, f - 1))

\* f * torch.log(q) for a count f >= 0 and a probability q, carried as its
\* exponential: log(0) = -inf, f * -inf = -inf for f > 0 and nan for f = 0.
LogTerm(f, q) ==
    IF IsNaN(q) THEN NaN
    ELSE IF q[1] = 0 THEN (IF f = 0 THEN NaN ELSE Zero)
    ELSE Pow(q, f)

\* torch broadcasting of two 1-D tensors of lengths a and b
Broadcastable(a, b) == a = b \/ a = 1 \/ b = 1

BroadcastLen(a, b) == IF a = 1 THEN b ELSE a

At(v, j) == IF Len(v) = 1 THEN v[1] ELSE v[j]

RECURSIVE ProdFrac(_)
ProdFrac(s) == IF s = <<>> THEN One ELSE Mul(Head(s), ProdFrac(Tail(s)))

\* torch.sum(feature * torch.log(conditional_prob)), carried as its exponential
LogLikelihood(feature, conditional_prob) ==
    ProdFrac([j \in 1..BroadcastLen(Len(feature), Len(conditional_prob)) |->
                  LogTerm(At(feature, j), At(conditional_prob, j))])

\* The loop of estimate_class_posteriors over class_priors.keys() (0, 1, ...
\* in insertion order) from class_label on; log_posteriors[k + 1] is the
\* tensor's entry k.
RECURSIVE PosteriorLoop(_, _, _, _, _)
PosteriorLoop(class_label, priors, conds, feature, log_posteriors) ==
    IF class_label \notin DOMAIN priors THEN Returned(log_posteriors)
    ELSE IF class_label \notin DOMAIN conds THEN Raised("KeyError")
    ELSE IF ~Broadcastable(Len(feature), Len(conds[class_label])) THEN Raised("RuntimeError")
    ELSE PosteriorLoop(class_label + 1, priors, conds, feature,
             [log_posteriors EXCEPT ![class_label + 1] =
                  Mul(priors[class_label], LogLikelihood(feature, conds[class_label]))])

\* a slip: a silent default instead of the "not trained" error
estimate_class_posteriors_default(priors, conds, feature) ==
    IF IsNone(conds) \/ IsNone(priors) THEN Returned(<<>>)
    ELSE PosteriorLoop(0, priors[1], conds[1], feature,
                       [k \in 1..Cardinality(DOMAIN priors[1]) |-> One])

estimate_class_posteriors(priors, conds, feature) ==
    IF IsNone(conds) \/ IsNone(priors) THEN Raised("NotTrained")
    ELSE PosteriorLoop(0, priors[1], conds[1], feature,
                       [k \in 1..Cardinality(DOMAIN priors[1]) |-> One])

\* a slip: the last index holding the maximum
RECURSIVE ArgMaxScanLast(_, _, _)
ArgMaxScanLast(t, i, best) ==
    IF i > Len(t) THEN best - 1
    ELSE IF IsNaN(t[best]) THEN best - 1
    ELSE IF IsNaN(t[i]) \/ ~Less(t[i], t[best]) THEN ArgMaxScanLast(t, i + 1, i)
    ELSE ArgMaxScanLast(t, i + 1, best)

\* torch.argmax of a non-empty 1-D tensor: the first NaN if there is one,
\* otherwise the first index holding the maximum (0-based).
RECURSIVE ArgMaxScan(_, _, _)
ArgMaxScan(t, i, best) ==
    IF i > Len(t) THEN best - 1
    ELSE IF IsNaN(t[best]) THEN best - 1
    ELSE IF IsNaN(t[i]) \/ Less(t[best], t[i]) THEN ArgMaxScan(t, i + 1, i)
    ELSE ArgMaxScan(t, i + 1, best)

ArgMax(t) == ArgMaxScan(t, 2, 1)

\* torch.softmax of log-posteriors carried as exponentials: v / sum(v); NaN
\* everywhere when an entry is NaN or every entry is -inf.
Softmax(t) ==
    LET total == SumFrac(t)
    IN [k \in 1..Len(t) |->
            IF IsNaN(total) \/ total[1] = 0 THEN NaN
            ELSE Frac(t[k][1] * total[2], t[k][2] * total[1])]

predict(priors, conds, feature) ==
    IF Falsy(priors) \/ Falsy(conds) THEN Raised("NotTrained")
    ELSE LET log_posteriors == estimate_class_posteriors(priors, conds, feature)
         IN IF log_posteriors.kind # "ok" THEN log_posteriors
            ELSE Returned(ArgMax(log_posteriors.val[1]))

predict_proba(priors, conds, feature) ==
    IF Falsy(priors) \/ Falsy(conds) THEN Raised("NotTrained")
    ELSE LET log_posteriors == estimate_class_posteriors(priors, conds, feature)
         IN IF log_posteriors.kind # "ok" THEN log_posteriors
            ELSE Returned(Softmax(log_posteriors.val[1]))

\* a slip: the call records the length of the feature it was given
EstimateClassPosteriorsStoring(feature) ==
    /\ outcome' = estimate_class_posteriors(class_priors, conditional_probabilities, feature)
    /\ call' = [op |-> "estimate_class_posteriors", feature |-> feature, delta |-> 0]
    /\ vocab_size' = Some(Len(feature))
    /\ UNCHANGED <<class_priors, conditional_probabilities, features, labels,
                   argFeatures, fitDelta, nfits>>

EstimateClassPosteriors(feature) ==
    /\ outcome' = estimate_class_posteriors(class_priors, conditional_probabilities, feature)
    /\ call' = [op |-> "estimate_class_posteriors", feature |-> feature, delta |-> 0]
    /\ UNCHANGED <<class_priors, conditional_probabilities, vocab_size, features, labels,
                   argFeatures, fitDelta, nfits>>

Predict(feature) ==
    /\ outcome' = predict(class_priors, conditional_probabilities, feature)
    /\ call' = [op |-> "predict", feature |-> feature, delta |-> 0]
    /\ UNCHANGED <<class_priors, conditional_probabilities, vocab_size, features, labels,
                   argFeatures, fitDelta, nfits>>

PredictProba(feature) ==
    /\ outcome' = predict_proba(class_priors, conditional_probabilities, feature)
    /\ call' = [op |-> "predict_proba", feature |-> feature, delta |-> 0]
    /\ UNCHANGED <<class_priors, conditional_probabilities, vocab_size, features, labels,
                   argFeatures, fitDelta, nfits>>

\* estimate_class_priors(labels) on the caller's label tensor
CallEstimateClassPriors ==
    /\ outcome' = Returned(estimate_class_priors(labels))
    /\ call' = [op |-> "estimate_class_priors", feature |-> NoFeature, delta |-> 0]
    /\ UNCHANGED <<class_priors, conditional_probabilities, vocab_size, features, labels,
                   argFeatures, fitDelta, nfits>>

Init ==
    /\ class_priors = None
    /\ conditional_probabilities = None
    /\ vocab_size = None
    /\ features \in FeatureMatrices
    /\ labels \in LabelVectors
    /\ call = [op |-> "init", feature |-> NoFeature, delta |-> 0]
    /\ outcome = Returned(None)
    /\ argFeatures = features
    /\ fitDelta = None
    /\ nfits = 0

Next ==
    \/ \E delta \in Deltas : Fit(delta)
    \/ \E feature \in InferenceFeatures : EstimateClassPosteriors(feature)
    \/ \E feature \in InferenceFeatures : Predict(feature)
    \/ \E feature \in InferenceFeatures : PredictProba(feature)
    \/ CallEstimateClassPriors

Spec == Init /\ [][Next]_vars

\* ---- properties ----------------------------------------------------------
InferenceOps == {"estimate_class_posteriors", "predict", "predict_proba"}

FitReturned == call.op = "fit" /\ outcome.kind = "ok"

\* the training examples of a fit: the rows of the matrix paired with their labels
Examples(rows, c) == {i \in 1..Len(rows) : i <= Len(labels) /\ labels[i] = c}

ExampleClasses(rows) == {labels[i] : i \in {k \in 1..Len(rows) : k <= Len(labels)}}

\* entry j of W_c: the sum over the example set S of rows[i][j]
RECURSIVE WordCount(_, _, _)
WordCount(rows, S, j) ==
    IF S = {} THEN 0
    ELSE LET i == CHOOSE k \in S : TRUE
         IN rows[i][j] + WordCount(rows, S \ {i}, j)

RECURSIVE TotalWords(_, _, _)
TotalWords(rows, S, v) ==
    IF v = 0 THEN 0 ELSE WordCount(rows, S, v) + TotalWords(rows, S, v - 1)

\* C1: on a classifier on which fit was never called, every inference call
\* ends in the "not trained" error, returns nothing, and the three fitted
\* fields stay absent.
C1_NotTrainedError ==
    (nfits = 0 /\ call.op \in InferenceOps) =>
        /\ outcome.kind = "NotTrained"
        /\ outcome.val = <<>>
        /\ class_priors = None
        /\ conditional_probabilities = None
        /\ vocab_size = None

C1_Witness ==
    /\ nfits = 0
    /\ call.op = "estimate_class_posteriors"
    /\ outcome.kind = "NotTrained"

\* C2: after fit returns, for every class c with a training example and every
\* word j, conditional_probabilities[c][j] is (W_c[j] + delta) / (total_words(c)
\* + delta * vocab_size), W_c being the sum of the rows labelled c as passed in;
\* and the worked example of the specification gives the stated fractions.
C2_SmoothedConditionals ==
    /\ FitReturned =>
         LET rows == argFeatures.rows
             V == argFeatures.cols
             cond == conditional_probabilities[1]
         IN \A c \in ExampleClasses(rows) :
              /\ c \in DOMAIN cond
              /\ \A j \in 1..V :
                   cond[c][j] = Frac(WordCount(rows, Examples(rows, c), j) + call.delta,
                                     TotalWords(rows, Examples(rows, c), V) + call.delta * V)
    /\ estimate_conditional_probabilities(
           <<(<<1, 0, 1>>), (<<0, 1, 1>>), (<<1, 1, 0>>)>>, <<0, 0, 1>>, 1, 3).probs
         = [c \in {0, 1} |-> IF c = 0 THEN <<(<<2, 7>>), (<<2, 7>>), (<<3, 7>>)>>
                                       ELSE <<(<<2, 5>>), (<<2, 5>>), (<<1, 5>>)>>]

C2_Witness ==
    /\ FitReturned
    /\ call.delta = 1
    /\ \E c \in ExampleClasses(argFeatures.rows) :
         /\ Cardinality(Examples(argFeatures.rows, c)) >= 2
         /\ TotalWords(argFeatures.rows, Examples(argFeatures.rows, c), argFeatures.cols) >= 2

\* C3: after fit returns, the keys of class_priors are exactly the label values
\* that occur in labels, each with prior count / number of examples.
C3_PriorKeysAreObservedLabels ==
    FitReturned =>
        /\ DOMAIN class_priors[1] = {labels[i] : i \in 1..Len(labels)}
        /\ \A c \in DOMAIN class_priors[1] :
             class_priors[1][c] =
                 Frac(Cardinality({i \in 1..Len(labels) : labels[i] = c}), Len(labels))

\* C4: once fit has run on a label vector with at least one example, the
\* values of class_priors add up to 1.
C4_PriorsSumToOne ==
    (class_priors # None /\ Len(labels) >= 1) =>
        LET priors == class_priors[1]
        IN SumFrac([k \in 1..Cardinality(DOMAIN priors) |-> priors[k - 1]]) = One

C4_Witness ==
    /\ FitReturned
    /\ Len(labels) = 2
    /\ labels[1] # labels[2]

\* C5: after fit returns with delta > 0, for every class with a training
\* example the conditional probabilities add up to 1 and each is > 0.
C5_ConditionalsSumToOne ==
    (FitReturned /\ call.delta > 0) =>
        LET cond == conditional_probabilities[1]
        IN \A c \in ExampleClasses(argFeatures.rows) :
             /\ c \in DOMAIN cond
             /\ SumFrac(cond[c]) = One
             /\ \A j \in 1..Len(cond[c]) : cond[c][j][1] > 0 /\ cond[c][j][2] > 0

\* a class whose examples are all-zero vectors
C5_Witness ==
    /\ FitReturned
    /\ call.delta > 0
    /\ argFeatures.cols = 2
    /\ \E c \in ExampleClasses(argFeatures.rows) :
         TotalWords(argFeatures.rows, Examples(argFeatures.rows, c), 2) = 0

\* log(prior(c)) + sum_j feature[j] * log(conditional(c)[j]) as its
\* exponential prior(c) * prod_j conditional(c)[j] ^ feature[j], a word of
\* count 0 contributing nothing (0 * log(q) = 0 for every q).
LogPosterior(c, feature) ==
    Mul(class_priors[1][c],
        ProdFrac([j \in 1..Len(feature) |->
                      Pow(conditional_probabilities[1][c][j], feature[j])]))

\* r has a maximal log-posterior, and no smaller class id has the same
SmallestArgMax(r, feature) ==
    /\ r \in DOMAIN class_priors[1]
    /\ \A c \in DOMAIN class_priors[1] :
         /\ ~Less(LogPosterior(r, feature), LogPosterior(c, feature))
         /\ c < r => Less(LogPosterior(c, feature), LogPosterior(r, feature))

\* predict returned a class id for a feature of length vocab_size, and every
\* stored conditional probability is a number
PredictReturned ==
    /\ call.op = "predict"
    /\ outcome.kind = "ok"
    /\ Len(call.feature) = vocab_size[1]
    /\ \A c \in DOMAIN conditional_probabilities[1] :
         \A j \in 1..Len(conditional_probabilities[1][c]) :
             ~IsNaN(conditional_probabilities[1][c][j])

C7_ShapeMismatchRaises ==
    /\ (/\ call.op \in InferenceOps
        /\ conditional_probabilities # None
        /\ Len(call.feature) # vocab_size[1]) => outcome.kind # "ok"
    /\ (call.op = "fit" /\ Len(argFeatures.rows) # Len(labels)) => outcome.kind # "ok"

\* C8: a call of estimate_class_posteriors, predict or predict_proba, whether
\* it returns or raises, leaves class_priors, conditional_probabilities and
\* vocab_size as they were.
C8_InferenceKeepsFittedState ==
    [][call'.op \in InferenceOps => UNCHANGED fitted]_vars

C8_Witness ==
    /\ call.op \in InferenceOps
    /\ outcome.kind = "RuntimeError"
    /\ class_priors # None
    /\ conditional_probabilities # None

\* C9: after fit returns on a training set with at least one example, every
\* key of class_priors is a key of conditional_probabilities.
C9_PriorKeysHaveConditionals ==
    (FitReturned /\ Len(labels) >= 1 /\ Len(argFeatures.rows) = Len(labels)) =>
        DOMAIN class_priors[1] \subseteq DOMAIN conditional_probabilities[1]

\* C10: fit leaves the caller's feature matrix as it was passed in.
C10_FitKeepsFeatures == FitReturned => features = argFeatures
====
